---- MODULE Spec2Model ----
(***************************************************************************)
(* Model of the pilosa server command (package server: Command.Run,        *)
(* Command.Close, PilosaBroadcaster, PilosaCluster, AssociateBroadcaster,  *)
(* normalizeHost), of the process entry point (cmd/pilosa/main.go) and of  *)
(* the shard width constant (shardwidth/24.go).  The cluster coordination  *)
(* components that live in package pilosa (ownership, gossip membership,   *)
(* anti-entropy) are modelled from the design document where noted.        *)
(*                                                                         *)
(* Go strings are sequences of one-character strings, so that              *)
(* strings.Contains, strings.HasPrefix and slicing are computed, not       *)
(* assumed.                                                                *)
(***************************************************************************)
EXTENDS Integers, Sequences, FiniteSets, TLC

VARIABLES
    config,        \* Command.Config and the process environment read by Run
    pc,            \* position of Command.Run
    runErr,        \* value returned by Command.Run ("none" while not returned)
    Started,       \* Command.Started is closed
    Done,          \* Command.Done is closed
    Host,          \* Server.Host
    LogOutput,     \* Server.LogOutput
    Broadcaster,   \* Server.Broadcaster
    Cluster,       \* Server.Cluster
    openCalled,    \* Server.Open has been called
    closeRet,      \* what the last Command.Close did and returned
    exit,          \* process exit status
    addr,          \* ShardMapper: the column address being mapped
    shard,         \* ShardMapper: the shard index computed for addr
    asked,         \* Cluster: ownersOf answers given so far, per shard
    digest,        \* Repairer: state digest of each replica of one shard
    repair,        \* Repairer: record of the repair cycles run
    members        \* Gossip: membership table, node -> incarnation and status

startupVars == <<config, pc, runErr, Started, Done, Host, LogOutput,
                 Broadcaster, Cluster, openCalled, closeRet, exit>>
shardVars == <<addr, shard>>
ownerVars == <<asked>>
repairVars == <<digest, repair>>
gossipVars == <<members>>
vars == <<startupVars, shardVars, ownerVars, repairVars, gossipVars>>
notStartup == <<shardVars, ownerVars, repairVars, gossipVars>>
notShard == <<startupVars, ownerVars, repairVars, gossipVars>>
notRepair == <<startupVars, shardVars, ownerVars, gossipVars>>
notGossip == <<startupVars, shardVars, ownerVars, repairVars>>

None == "nil"

(***************************************************************************)
(* Strings                                                                 *)
(***************************************************************************)
Str_http == <<"h", "t", "t", "p", ":", "/", "/">>
Str_ftp == <<"f", "t", "p", ":", "/", "/">>
Str_scheme == <<":", "/", "/">>
Str_colon == <<":">>

\* strings.Contains(s, sub)
Contains(s, sub) ==
    \E i \in 1..(Len(s) - Len(sub) + 1) : SubSeq(s, i, i + Len(sub) - 1) = sub

\* strings.HasPrefix(s, p)
HasPrefix(s, p) == Len(s) >= Len(p) /\ SubSeq(s, 1, Len(p)) = p

\* The pieces host strings are assembled from, and the longest assembly.
MaxPieces == 3
Pieces == {Str_http, Str_ftp, Str_colon, <<"a">>, <<"1">>}

RECURSIVE HostsOf(_)
HostsOf(n) ==
    IF n = 0 THEN {<<>>}
    ELSE LET prev == HostsOf(n - 1)
         IN  prev \cup {h \o p : h \in prev, p \in Pieces}

Hosts == HostsOf(MaxPieces)

\* normalizeHost without the scheme check: whatever precedes "://" is cut.
RECURSIVE CutScheme(_)
CutScheme(h) ==
    IF HasPrefix(h, Str_scheme) THEN SubSeq(h, 4, Len(h))
    ELSE CutScheme(Tail(h))

normalizeHost_anyScheme(host) ==
    IF ~Contains(host, Str_colon)
    THEN [host |-> host \o Str_colon, err |-> FALSE]
    ELSE IF Contains(host, Str_scheme)
         THEN [host |-> CutScheme(host), err |-> FALSE]
         ELSE [host |-> host, err |-> FALSE]

(***************************************************************************)
(* normalizeHost: returns [host, err]                                      *)
(***************************************************************************)
normalizeHost(host) ==
    IF ~Contains(host, Str_colon)
    THEN [host |-> host \o Str_colon, err |-> FALSE]
    ELSE IF Contains(host, Str_scheme)
         THEN IF HasPrefix(host, Str_http)
              THEN [host |-> SubSeq(host, 8, Len(host)), err |-> FALSE]
              ELSE [host |-> <<>>, err |-> TRUE]
         ELSE [host |-> host, err |-> FALSE]

(***************************************************************************)
(* Configuration and environment of one start of the server command        *)
(***************************************************************************)
BroadcasterTypes == {"static", "http", "gossip", "udp"}
KnownTypes == {"static", "http", "gossip"}

\* Cluster.Nodes of the configuration used by the startup specification.
StartupNodes == <<"n1", "n2", "n3">>

Configs ==
    [ DataDirTilde : BOOLEAN,      \* Config.DataDir starts with "~/"
      Home : BOOLEAN,              \* $HOME is set
      LogPath : BOOLEAN,           \* Config.LogPath is not empty
      StderrCloser : BOOLEAN,      \* CmdIO.Stderr implements io.Closer
      Host : Hosts,
      BroadcasterType : BroadcasterTypes,
      Nodes : {StartupNodes},
      ReplicaN : {2} ]

\* Server.Cluster before PilosaCluster has run (a nil pointer).
NoCluster ==
    [ Nodes |-> <<>>, ReplicaN |-> 0, NodeSet |-> None, joinErr |-> FALSE,
      attached |-> None, built |-> FALSE ]

\* PilosaBroadcaster: the Broadcaster variant, nil when no case matches.
PilosaBroadcaster(c) ==
    CASE c.BroadcasterType = "http" -> "http"
      [] c.BroadcasterType = "gossip" -> "gossip"
      [] c.BroadcasterType = "static" -> "nop"
      [] OTHER -> None

\* PilosaCluster without the copy of Cluster.ReplicaN (line 130): the
\* replica factor stays at 1.
PilosaCluster_defaultReplicaN(c, joinErr) ==
    [ Nodes |-> c.Nodes,
      ReplicaN |-> 1,
      NodeSet |-> CASE c.BroadcasterType = "http" -> "http"
                    [] c.BroadcasterType = "gossip" -> "gossip"
                    [] OTHER -> "static",
      joinErr |-> (c.BroadcasterType = "http" /\ joinErr),
      attached |-> None,
      built |-> TRUE ]

\* PilosaCluster: the Cluster with its nodes, replica factor and NodeSet.
\* joinErr is what HTTPNodeSet.Join returned; the call site drops it.
PilosaCluster(c, joinErr) ==
    [ Nodes |-> c.Nodes,
      ReplicaN |-> c.ReplicaN,
      NodeSet |-> CASE c.BroadcasterType = "http" -> "http"
                    [] c.BroadcasterType = "gossip" -> "gossip"
                    [] c.BroadcasterType = "static" -> "static"
                    [] OTHER -> "static",
      joinErr |-> (c.BroadcasterType = "http" /\ joinErr),
      attached |-> None,
      built |-> TRUE ]

\* AssociateBroadcaster with the gossip case empty like the other two.
AssociateBroadcaster_nop(cluster, broadcaster, c) == cluster

\* AssociateBroadcaster: the Cluster after the association step.
AssociateBroadcaster(cluster, broadcaster, c) ==
    IF c.BroadcasterType = "gossip"
    THEN [cluster EXCEPT !.attached = broadcaster]
    ELSE cluster

NoClose == [returned |-> FALSE, serveErr |-> FALSE, closable |-> FALSE,
            logAttempted |-> FALSE, logErr |-> FALSE, err |-> "none"]

\* The Command as NewCommand returns it.
StartupRest ==
    /\ pc = "idle"
    /\ runErr = "none"
    /\ Started = FALSE
    /\ Done = FALSE
    /\ Host = <<>>
    /\ LogOutput = None
    /\ Broadcaster = None
    /\ Cluster = NoCluster
    /\ openCalled = FALSE
    /\ closeRet = NoClose
    /\ exit = "running"

StartupInit ==
    /\ config \in Configs
    /\ StartupRest

\* A return of Run with error e; the deferred close(m.Started) runs.
Return(e) ==
    /\ pc' = "returned"
    /\ runErr' = e
    /\ Started' = TRUE

\* Run, lines 65-74: the data directory.
RunDataDir ==
    /\ pc = "idle"
    /\ exit = "running"
    /\ IF config.DataDirTilde /\ ~config.Home
       THEN Return("nohome")
       ELSE pc' = "logging" /\ UNCHANGED <<runErr, Started>>
    /\ UNCHANGED <<notStartup, config, Done, Host, LogOutput, Broadcaster,
                   Cluster, openCalled, closeRet, exit>>

\* Run, lines 76-90: the logging output; os.OpenFile may fail.
RunLogging ==
    /\ pc = "logging"
    /\ IF ~config.LogPath
       THEN /\ LogOutput' = "stderr"
            /\ pc' = "host"
            /\ UNCHANGED <<runErr, Started>>
       ELSE \E openErr \in BOOLEAN :
              IF openErr
              THEN Return("logopen") /\ UNCHANGED LogOutput
              ELSE /\ LogOutput' = "file"
                   /\ pc' = "host"
                   /\ UNCHANGED <<runErr, Started>>
    /\ UNCHANGED <<notStartup, config, Done, Host, Broadcaster, Cluster,
                   openCalled, closeRet, exit>>

\* Run, lines 92-96: m.Server.Host, err = normalizeHost(m.Config.Host).
RunNormalizeHost ==
    /\ pc = "host"
    /\ LET r == normalizeHost(config.Host)
       IN  /\ Host' = r.host
           /\ IF r.err
              THEN Return("badhost")
              ELSE pc' = "broadcaster" /\ UNCHANGED <<runErr, Started>>
    /\ UNCHANGED <<notStartup, config, Done, LogOutput, Broadcaster, Cluster,
                   openCalled, closeRet, exit>>

\* Run, line 97.
RunBroadcaster ==
    /\ pc = "broadcaster"
    /\ Broadcaster' = PilosaBroadcaster(config)
    /\ pc' = "cluster"
    /\ UNCHANGED <<notStartup, config, runErr, Started, Done, Host,
                   LogOutput, Cluster, openCalled, closeRet, exit>>

\* Run, line 98; the join of the http NodeSet may fail.
RunCluster ==
    /\ pc = "cluster"
    /\ \E joinErr \in BOOLEAN : Cluster' = PilosaCluster(config, joinErr)
    /\ pc' = "associate"
    /\ UNCHANGED <<notStartup, config, runErr, Started, Done, Host,
                   LogOutput, Broadcaster, openCalled, closeRet, exit>>

\* Run, lines 100-104.
RunAssociate ==
    /\ pc = "associate"
    /\ Cluster' = AssociateBroadcaster(Cluster, Broadcaster, config)
    /\ pc' = "open"
    /\ UNCHANGED <<notStartup, config, runErr, Started, Done, Host,
                   LogOutput, Broadcaster, openCalled, closeRet, exit>>

\* Run, lines 106-111: Server.Open may fail.
RunOpen ==
    /\ pc = "open"
    /\ openCalled' = TRUE
    /\ \E openErr \in BOOLEAN : Return(IF openErr THEN "open" ELSE "ok")
    /\ UNCHANGED <<notStartup, config, Done, Host, LogOutput, Broadcaster,
                   Cluster, closeRet, exit>>

\* Whether Server.LogOutput implements io.Closer (line 200).
IsCloser(out) ==
    CASE out = "file" -> TRUE
      [] out = "stderr" -> config.StderrCloser
      [] OTHER -> FALSE

\* The error Close returns (lines 204-209).
CloseErr(serveErr, logErr) ==
    IF serveErr /\ logErr THEN "both"
    ELSE IF logErr THEN "log"
    ELSE IF serveErr THEN "serve" ELSE "ok"

\* Close returning the server's error at once, before the log output and
\* Done are closed.
Close_earlyReturn ==
    /\ pc \in {"idle", "returned"}
    /\ exit = "running"
    /\ ~closeRet.returned
    /\ \E serveErr \in BOOLEAN, logFails \in BOOLEAN :
         LET closer == IsCloser(LogOutput) /\ ~serveErr
             logErr == closer /\ logFails
         IN  /\ Done' = ~serveErr
             /\ closeRet' = [returned |-> TRUE, serveErr |-> serveErr,
                             closable |-> IsCloser(LogOutput),
                             logAttempted |-> closer, logErr |-> logErr,
                             err |-> CloseErr(serveErr, logErr)]
    /\ UNCHANGED <<notStartup, config, pc, runErr, Started, Host, LogOutput,
                   Broadcaster, Cluster, openCalled, exit>>

\* Command.Close, called by the owner of the Command while Run is not
\* executing.  A second call panics at close(m.Done) and is left out.
Close ==
    /\ pc \in {"idle", "returned"}
    /\ exit = "running"
    /\ ~closeRet.returned
    /\ \E serveErr \in BOOLEAN, logFails \in BOOLEAN :
         LET closer == IsCloser(LogOutput)
             logErr == closer /\ logFails
         IN  /\ Done' = TRUE
             /\ closeRet' = [returned |-> TRUE, serveErr |-> serveErr,
                             closable |-> IsCloser(LogOutput),
                             logAttempted |-> closer, logErr |-> logErr,
                             err |-> CloseErr(serveErr, logErr)]
    /\ UNCHANGED <<notStartup, config, pc, runErr, Started, Host, LogOutput,
                   Broadcaster, Cluster, openCalled, exit>>

\* rootCmd.Execute as seen from main: the error of Run, else the error of
\* Close once the server was shut down.
Execute ==
    IF runErr \notin {"none", "ok"} THEN runErr
    ELSE IF closeRet.returned THEN closeRet.err ELSE "none"

\* main, lines 48-52: os.Exit(1) when Execute returns an error.
MainExit ==
    /\ exit = "running"
    /\ pc = "returned"
    /\ Execute # "none"
    /\ exit' = IF Execute # "ok" THEN "exit1" ELSE "exit0"
    /\ UNCHANGED <<notStartup, config, pc, runErr, Started, Done, Host,
                   LogOutput, Broadcaster, Cluster, openCalled, closeRet>>

StartupNext ==
    \/ RunDataDir
    \/ RunLogging
    \/ RunNormalizeHost
    \/ RunBroadcaster
    \/ RunCluster
    \/ RunAssociate
    \/ RunOpen
    \/ Close
    \/ MainExit

(***************************************************************************)
(* ShardMapper: shard index = column address >> Exponent                   *)
(***************************************************************************)
\* The exponent of a build made with the shardwidth23 tag.
Exponent_23 == 24 - 1

Exponent == 24

\* a >> n on a non-negative integer.
RECURSIVE Shr(_, _)
Shr(a, n) == IF n = 0 THEN a ELSE Shr(a \div 2, n - 1)

\* a << n.
RECURSIVE Shl(_, _)
Shl(a, n) == IF n = 0 THEN a ELSE Shl(a * 2, n - 1)

shardOf(a) == Shr(a, Exponent)

\* Addresses examined: up to MaxOffset above and below each of the first
\* shard boundaries of a 2^24 layout.
MaxShard == 7
MaxOffset == 7
Boundary(s) == s * 16777216
Addrs ==
    {Boundary(s) + d : s \in 0..MaxShard, d \in 0..MaxOffset}
    \cup {Boundary(s) - d : s \in 1..(MaxShard + 1), d \in 1..MaxOffset}

\* Address 0 and the lowest examined address below each boundary.
StartAddrs == {0} \cup {Boundary(s) - MaxOffset : s \in 1..(MaxShard + 1)}

ShardInit ==
    /\ addr \in StartAddrs
    /\ shard = -1

\* The shard of the current address is computed.
MapAddress ==
    /\ shard = -1
    /\ shard' = shardOf(addr)
    /\ UNCHANGED <<addr, notShard>>

\* The next column address is mapped.
MapNext ==
    /\ shard # -1
    /\ addr + 1 \in Addrs
    /\ addr' = addr + 1
    /\ shard' = shardOf(addr + 1)
    /\ UNCHANGED notShard

ShardNext == MapAddress \/ MapNext

(***************************************************************************)
(* Cluster ownership                                                       *)
(***************************************************************************)
MaxNodes == 3
MaxShardIndex == 3
NodeNames == {"a", "b", "c"}
ShardIndexes == 0..MaxShardIndex

RECURSIVE NodeLists(_)
NodeLists(n) ==
    IF n = 0 THEN {<<>>}
    ELSE LET prev == NodeLists(n - 1)
         IN  prev \cup {Append(l, h) : l \in prev, h \in NodeNames}

OwnerConfigs ==
    [ DataDirTilde : {FALSE}, Home : {TRUE}, LogPath : {FALSE},
      StderrCloser : {FALSE}, Host : {<<>>},
      BroadcasterType : {"static"},
      Nodes : NodeLists(MaxNodes) \ {<<>>},
      ReplicaN : 1..MaxNodes ]

\* Cluster.ownersOf: modulo placement over the node sequence, ReplicaN
\* consecutive nodes starting at shard mod node count, at most one per node
\* position.
ownersOf(cluster, s) ==
    LET n == Len(cluster.Nodes)
        k == IF cluster.ReplicaN < n THEN cluster.ReplicaN ELSE n
    IN  [i \in 1..k |-> cluster.Nodes[((s + i - 1) % n) + 1]]

ownerRest == <<pc, runErr, Started, Done, Host, LogOutput, Broadcaster,
               openCalled, closeRet, exit, shardVars, repairVars, gossipVars>>

OwnersInit ==
    /\ config \in OwnerConfigs
    /\ Cluster = NoCluster
    /\ asked = [s \in ShardIndexes |-> {}]

\* The Cluster is built from the configuration (Run, line 98).
BuildCluster ==
    /\ ~Cluster.built
    /\ Cluster' = PilosaCluster(config, FALSE)
    /\ UNCHANGED <<config, asked, ownerRest>>

\* ownersOf(s) is asked of the built Cluster and its answer recorded.
AskOwners ==
    /\ Cluster.built
    /\ \E s \in ShardIndexes :
         asked' = [asked EXCEPT ![s] = @ \cup {ownersOf(Cluster, s)}]
    /\ UNCHANGED <<config, Cluster, ownerRest>>

OwnersNext == BuildCluster \/ AskOwners

(***************************************************************************)
(* Anti-entropy repair of one shard held by its co-owners                  *)
(***************************************************************************)
NumReplicas == 3
MaxDigest == 2
Replicas == 1..NumReplicas
Digests == 0..MaxDigest

NoRepair ==
    [ ran |-> FALSE, ok |-> FALSE, before |-> [r \in Replicas |-> 0],
      transfers |-> {}, afterClean |-> FALSE, dirty |-> FALSE ]

\* The authoritative digest among those reported: the highest one.
Authoritative(d) ==
    CHOOSE x \in {d[r] : r \in Replicas} : \A r \in Replicas : d[r] <= x

\* The replicas a delta is pushed to in a cycle that starts from d.
Targets(d) == {r \in Replicas : d[r] # Authoritative(d)}

RepairInit ==
    /\ digest \in [Replicas -> Digests]
    /\ repair = NoRepair

\* A foreground write changes the state of one replica.
Write ==
    /\ \E r \in Replicas, d \in Digests :
         /\ digest[r] # d
         /\ digest' = [digest EXCEPT ![r] = d]
    /\ repair' = [repair EXCEPT !.dirty = TRUE]
    /\ UNCHANGED notRepair

\* A repair cycle that counts its transfers but leaves the replicas as they
\* were.
RepairCycle_noApply ==
    \E reachable \in BOOLEAN :
      /\ digest' = digest
      /\ repair' = [ ran |-> TRUE,
                     ok |-> reachable,
                     before |-> digest,
                     transfers |-> IF reachable THEN Targets(digest) ELSE {},
                     afterClean |-> repair.ran /\ repair.ok /\ ~repair.dirty,
                     dirty |-> FALSE ]
      /\ UNCHANGED notRepair

\* One repair cycle: Scanning, Comparing, Repairing, back to Idle.  An
\* unreachable peer during Comparing skips the shard for this cycle.
RepairCycle ==
    \E reachable \in BOOLEAN :
      /\ digest' = IF reachable
                   THEN [r \in Replicas |-> Authoritative(digest)]
                   ELSE digest
      /\ repair' = [ ran |-> TRUE,
                     ok |-> reachable,
                     before |-> digest,
                     transfers |-> IF reachable THEN Targets(digest) ELSE {},
                     afterClean |-> repair.ran /\ repair.ok /\ ~repair.dirty,
                     dirty |-> FALSE ]
      /\ UNCHANGED notRepair

RepairNext == Write \/ RepairCycle

(***************************************************************************)
(* Gossip membership: last write wins on the incarnation number            *)
(***************************************************************************)
MaxIncarnation == 2
GossipNodes == {"a", "b", "c"}
Statuses == {"alive", "dead"}
Updates == [node : GossipNodes, inc : 1..MaxIncarnation, status : Statuses]

\* Merge that takes every update, whatever its incarnation.
Merge_lastArrivalWins(m, u) ==
    [m EXCEPT ![u.node] = [inc |-> u.inc, status |-> u.status]]

\* The membership after merging update u into m.
Merge(m, u) ==
    IF u.inc > m[u.node].inc
    THEN [m EXCEPT ![u.node] = [inc |-> u.inc, status |-> u.status]]
    ELSE m

GossipInit ==
    members = [n \in GossipNodes |-> [inc |-> 0, status |-> "alive"]]

\* A membership update arrives in a gossip exchange and is merged.
Receive ==
    /\ \E u \in Updates : members' = Merge(members, u)
    /\ UNCHANGED notGossip

GossipNext == Receive

(***************************************************************************)
(* Specifications                                                          *)
(***************************************************************************)
StartupIdle ==
    /\ config \in {c \in OwnerConfigs : c.Nodes = <<"a">> /\ c.ReplicaN = 1}
    /\ StartupRest
ShardIdle == addr = 0 /\ shard = -1
OwnersIdle == asked = [s \in ShardIndexes |-> {}]
RepairIdle == digest = [r \in Replicas |-> 0] /\ repair = NoRepair

\* The server command: Run, Close and the process exit.
Init == StartupInit /\ ShardIdle /\ OwnersIdle /\ RepairIdle /\ GossipInit
Next == StartupNext
Spec == Init /\ [][Next]_vars

\* The ShardMapper applied to column addresses.
InitShard == StartupIdle /\ ShardInit /\ OwnersIdle /\ RepairIdle /\ GossipInit
SpecShard == InitShard /\ [][ShardNext]_vars

\* The Cluster built from a node list and asked for owners.
InitOwners == StartupRest /\ OwnersInit /\ ShardIdle /\ RepairIdle /\ GossipInit
SpecOwners == InitOwners /\ [][OwnersNext]_vars

\* Anti-entropy repair cycles interleaved with writes.
InitRepair == StartupIdle /\ ShardIdle /\ OwnersIdle /\ RepairInit /\ GossipInit
SpecRepair == InitRepair /\ [][RepairNext]_vars

\* Gossip membership updates merged as they arrive.
InitGossip == StartupIdle /\ ShardIdle /\ OwnersIdle /\ RepairIdle /\ GossipInit
SpecGossip == InitGossip /\ [][GossipNext]_vars

(***************************************************************************)
(* Properties                                                              *)
(***************************************************************************)
InvalidHost(h) == Contains(h, Str_scheme) /\ ~HasPrefix(h, Str_http)
\* Run got past normalizeHost without an error from it.
HostAccepted ==
    \/ pc \in {"broadcaster", "cluster", "associate", "open"}
    \/ pc = "returned" /\ runErr \in {"ok", "open"}

\* C1: with a variant name other than static, http and gossip, Run returns
\* an error, no Broadcaster or NodeSet variant is selected and Server.Open
\* is never reached.
C1_UnknownVariantIsFatal ==
    config.BroadcasterType \notin KnownTypes =>
        /\ Broadcaster = None
        /\ Cluster.NodeSet = None
        /\ ~openCalled
        /\ (pc = "returned" => runErr # "ok")

\* C2: a host containing "://" that does not start with "http://" makes Run
\* return an error before a Broadcaster or Cluster (with its NodeSet) is
\* constructed and without Server.Open, and the process then exits with
\* status 1: the exit is enabled once Run has returned and it is never 0.
C2_InvalidHostAbortsStartup ==
    InvalidHost(config.Host) =>
        /\ pc \in {"idle", "logging", "host", "returned"}
        /\ (pc = "returned" => runErr \in {"nohome", "logopen", "badhost"})
        /\ Broadcaster = None
        /\ ~Cluster.built
        /\ ~openCalled
        /\ (pc = "returned" /\ exit = "running" => ENABLED MainExit)
        /\ exit \in {"running", "exit1"}

C2_Witness ==
    /\ InvalidHost(config.Host)
    /\ pc = "returned"
    /\ runErr = "badhost"
    /\ exit = "exit1"

\* C3: with the http variant, a failed NodeSet join makes Run return an
\* error and Server.Open is not called.
C3_JoinFailureIsFatal ==
    Cluster.joinErr =>
        /\ ~openCalled
        /\ (pc = "returned" => runErr # "ok")

\* C4: shardOf(a) = a >> Exponent: the address lies in the range of its
\* shard, [s << E, (s+1) << E); no lower address maps to a higher shard; the
\* first address of the next range maps to s+1; and with the default
\* exponent 16777215 maps to shard 0 and 16777216 to shard 1.
C4_ShardOfRange ==
    shard # -1 =>
        /\ Shl(shard, Exponent) <= addr
        /\ addr < Shl(shard + 1, Exponent)
        /\ \A b \in Addrs : b <= addr => shardOf(b) <= shard
        /\ shardOf(Shl(shard + 1, Exponent)) = shard + 1
        /\ (addr = 16777215 => shard = 0)
        /\ (addr = 16777216 => shard = 1)

C4_Witness == addr = 16777216 /\ shard = 1

DistinctSeq(l) ==
    \A i \in 1..Len(l), j \in 1..Len(l) : i # j => l[i] # l[j]

\* Every answer recorded for shard s has exactly the configured number of
\* nodes, all different, all from the configured node list, and all
\* answers for s are the same one.
OwnersAnswerOk(s) ==
    /\ Cardinality(asked[s]) <= 1
    /\ \A o \in asked[s] :
         /\ Len(o) = config.ReplicaN
         /\ DistinctSeq(o)
         /\ \A i \in 1..Len(o) : \E j \in 1..Len(config.Nodes) :
              o[i] = config.Nodes[j]

\* C5 as stated: for every configured node list and every replica factor N
\* with 1 <= N <= number of nodes, ownersOf(shard) returns exactly N distinct
\* nodes of the node sequence, the same ones on every call.
C5_OwnersDistinctAnyNodeList ==
    (Cluster.built /\ config.ReplicaN <= Len(config.Nodes)) =>
        \A s \in ShardIndexes : OwnersAnswerOk(s)

\* C5 amended: the same, for configured node lists that name no host twice.
C5_OwnersDistinctHosts ==
    (/\ Cluster.built
     /\ config.ReplicaN <= Len(config.Nodes)
     /\ DistinctSeq(config.Nodes)) =>
        \A s \in ShardIndexes : OwnersAnswerOk(s)

C5_Witness ==
    /\ config.Nodes = <<"a", "b", "c">>
    /\ config.ReplicaN = 2
    /\ asked[1] = {<<"b", "c">>}

AllEqual(d) == \A r \in Replicas, q \in Replicas : d[r] = d[q]
Highest(d, x) ==
    /\ \E r \in Replicas : d[r] = x
    /\ \A r \in Replicas : d[r] <= x

\* C6: a cycle whose co-owners report equal digests transfers nothing; one
\* where they disagree pushes the authoritative (highest) replica to exactly
\* the others, which then hold its digest; and a cycle run right after a
\* successful one, with no write in between, transfers nothing.
C6_RepairIdempotent ==
    (repair.ran /\ repair.ok) =>
        /\ (AllEqual(repair.before) => repair.transfers = {})
        /\ \A r \in Replicas :
             r \in repair.transfers <=>
                ~Highest(repair.before, repair.before[r])
        /\ (~repair.dirty =>
              /\ AllEqual(digest)
              /\ Highest(repair.before, digest[1]))
        /\ (repair.afterClean => repair.transfers = {})

C6_Witness ==
    /\ repair.ran /\ repair.ok /\ repair.afterClean
    /\ repair.transfers = {}
    /\ \E r \in Replicas : digest[r] # 0

\* C7: merging an update twice gives what merging it once gives; merging an
\* update and one for the same node with a higher incarnation gives the same
\* membership in either order, in which the higher incarnation has won.
C7_MergeIdempotentCommutative ==
    /\ \A u \in Updates : Merge(Merge(members, u), u) = Merge(members, u)
    /\ \A u \in Updates, v \in Updates :
         (u.node = v.node /\ v.inc > u.inc) =>
            /\ Merge(Merge(members, u), v) = Merge(Merge(members, v), u)
            /\ Merge(Merge(members, u), v)[v.node].inc >= v.inc
            /\ (v.inc > members[v.node].inc =>
                  Merge(Merge(members, u), v)[v.node].status = v.status)

C7_Witness ==
    /\ members["a"] = [inc |-> MaxIncarnation, status |-> "dead"]
    /\ members["b"].inc = 1

\* The gossip attachment: made only for the gossip variant, between the
\* gossip Broadcaster and the gossip NodeSet of the built Cluster, in place
\* before Server.Open is reached; none for http and static.
AttachmentOrder ==
    /\ (Cluster.attached # None =>
          /\ config.BroadcasterType = "gossip"
          /\ Cluster.attached = "gossip"
          /\ Broadcaster = "gossip"
          /\ Cluster.built /\ Cluster.NodeSet = "gossip"
          /\ pc \in {"open", "returned"})
    /\ (config.BroadcasterType = "gossip" /\ (pc = "open" \/ openCalled) =>
          Cluster.attached = "gossip")
    /\ (~openCalled => pc # "returned" \/ runErr \notin {"ok", "open"})
    /\ (config.BroadcasterType \in {"http", "static"} =>
          Cluster.attached = None)

\* C8 as stated: the Cluster is built first and the Broadcaster variant is
\* selected after it; the gossip attachment as above.
C8_ClusterThenBroadcaster ==
    /\ (Broadcaster # None => Cluster.built)
    /\ AttachmentOrder

\* C8 amended: the Broadcaster variant is selected first, then the Cluster
\* is built with its NodeSet variant; the gossip attachment as above.
C8_BroadcasterThenCluster ==
    /\ (Cluster.built =>
          /\ Broadcaster = PilosaBroadcaster(config)
          /\ Cluster.NodeSet \in KnownTypes)
    /\ (pc = "cluster" /\ config.BroadcasterType \in KnownTypes =>
          Broadcaster # None /\ ~Cluster.built)
    /\ AttachmentOrder

C8_Witness ==
    /\ config.BroadcasterType = "gossip"
    /\ Cluster.attached = "gossip"
    /\ openCalled
    /\ runErr = "ok"

\* C9: Started is closed exactly once Run has returned, on every return
\* path; Done is closed exactly once Close has returned; Close attempts the
\* close of a closable log output whether or not the server close failed,
\* and returns an error whenever the server close or the log close failed.
C9_LifecycleSignals ==
    /\ (Started <=> pc = "returned")
    /\ (pc = "returned" => runErr # "none")
    /\ (Done <=> closeRet.returned)
    /\ (closeRet.returned =>
          /\ closeRet.logAttempted = closeRet.closable
          /\ (closeRet.serveErr \/ closeRet.logErr => closeRet.err # "ok")
          /\ (closeRet.err # "ok" => closeRet.serveErr \/ closeRet.logErr))

C9_Witness ==
    /\ Started /\ runErr = "open"
    /\ Done /\ closeRet.serveErr /\ closeRet.logErr
    /\ closeRet.logAttempted /\ closeRet.err = "both"

\* C10: a host accepted by normalizeHost is returned in normal form: it has
\* a ':' and no "://", and normalizeHost maps it to itself.
C10_AcceptedHostIsNormalForm ==
    HostAccepted =>
        /\ Contains(Host, Str_colon)
        /\ ~Contains(Host, Str_scheme)
        /\ normalizeHost(Host) = [host |-> Host, err |-> FALSE]

====
